---- MODULE Spec2Model ----
(***************************************************************************)
(* Model of the quantitative engine of streamlit_oil_gas_app.py:           *)
(*   calculate_oil_gas_model   the 60-month cash-flow projector            *)
(*   calculate_irr_scipy       the IRR solver wrapped around scipy fsolve  *)
(*   run_monte_carlo_simulation the Monte Carlo driver                     *)
(*                                                                         *)
(* Numbers.  The program computes in IEEE doubles.  Here every real value  *)
(* is a fixed-point integer: the real v is the integer floor(v * Scale).   *)
(* Each arithmetic operation of the source is one operation here, in the   *)
(* order the source applies it, and each rounds its result down to the     *)
(* grid, as each double operation rounds to a representable value.         *)
(* Rounding down is monotone, as IEEE rounding is.  The input sets keep    *)
(* every intermediate value inside the range of TLC's 32-bit integers.     *)
(***************************************************************************)
EXTENDS Integers, Sequences, FiniteSets, TLC

\* Fixed-point resolution: Scale steps per unit.
Scale == 10000

\* Largest number of trials the Monte Carlo click may ask for.
MaxSims == 2
MaxBatch == 5

\* Largest number of runs of main after the first in a session.
MaxReruns == 1

One == Scale

\* The fixed-point image of the rational n/d.
Fx(n, d) == (n * Scale) \div d

\* a * b for two fixed-point numbers: floor(a*b/Scale), computed limb by limb
\* so that no intermediate product leaves the integer range.
MulFix(a, b) ==
    LET ah == a \div Scale
        al == a % Scale
        bh == b \div Scale
        bl == b % Scale
    IN  ah * bh * Scale + ah * bl + al * bh + (al * bl) \div Scale

\* The largest numerator a for which a * Scale stays in the integer range.
SafeNumerator == 2147483647 \div Scale

\* [q, m] with r * s = q * b + m and 0 <= m < b, for 0 <= r < b: the product
\* is built one binary digit of s at a time and reduced as it grows.
RECURSIVE MulDivMod(_, _, _)
MulDivMod(r, s, b) ==
    IF s = 0
    THEN [q |-> 0, m |-> 0]
    ELSE LET h == MulDivMod(r, s \div 2, b)
             t == 2 * h.m + r * (s % 2)
         IN  [q |-> 2 * h.q + t \div b, m |-> t % b]

\* a / b for two fixed-point numbers: floor(a*Scale/b), by long division
\* where a * Scale would leave the integer range.  A quotient too large for
\* the fixed-point range is held at the end of the range.
RECURSIVE DivFix(_, _)
DivFix(a, b) ==
    IF a <= SafeNumerator /\ a >= -SafeNumerator
    THEN (a * Scale) \div b
    ELSE IF b < 0
    THEN DivFix(-a, -b)
    ELSE IF a \div b >= SafeNumerator
    THEN SafeNumerator * Scale
    ELSE IF a \div b < -SafeNumerator
    THEN -(SafeNumerator * Scale)
    ELSE (a \div b) * Scale + MulDivMod(a % b, Scale, b).q

\* The powers x ** k of a float x, k >= 0 (x ** 0 is 1.0): each is the one
\* before it times x.
NextPow(s, x) == Append(s, MulFix(s[Len(s)], x))

\* s extended by its next k powers of x, each the previous one times x.
RECURSIVE ExtendPow(_, _, _)
ExtendPow(s, x, k) ==
    IF Len(s) = 0 \/ k <= 0 THEN s
    ELSE IF k = 1 THEN NextPow(s, x)
    ELSE ExtendPow(ExtendPow(s, x, k \div 2), x, k - k \div 2)

\* <<x**0, x**1, ..., x**(n-1)>>: the powers one list comprehension asks for.
PowSeq(x, n) == ExtendPow(<<One>>, x, n - 1)

\* Python's built-in max(a, b) and min(a, b) on two numbers.
PyMax(a, b) == IF b > a THEN b ELSE a
PyMin(a, b) == IF b < a THEN b ELSE a

\* s[lo] + ... + s[hi].
RECURSIVE SumRange(_, _, _)
SumRange(s, lo, hi) ==
    IF lo > hi THEN 0
    ELSE IF lo = hi THEN s[lo]
    ELSE LET mid == (lo + hi) \div 2
         IN  SumRange(s, lo, mid) + SumRange(s, mid + 1, hi)

\* Series.sum()
SeriesSum(s) == SumRange(s, 1, Len(s))

(***************************************************************************)
(* calculate_oil_gas_model                                                 *)
(***************************************************************************)
Horizon == 60
months == 1 .. Horizon

\* A DataFrame column: the values of f over the months, computed once and held.
Col(f) == f @@ <<>>

base_opex == 15
GasOilRatio == 6

\* cost_escalation = 0.025 and the severance tax rate 0.075
cost_escalation == Fx(25, 1000)
SeveranceRate == Fx(75, 1000)

\* capex_schedule = [500, 300, 200, 100, 50, 50] + [10]*18 + [5]*36
capex_schedule ==
    [m \in months |->
        IF m <= 6 THEN <<500, 300, 200, 100, 50, 50>>[m]
        ELSE IF m <= 24 THEN 10
        ELSE 5]

\* Faulty variant: the exponent halved, so production falls every other month.
Oil_Production_stepped(initial_production, decline_rate) ==
    LET p == PowSeq(One - decline_rate, Horizon)
    IN  Col([m \in months |-> MulFix(initial_production, p[(m - 1) \div 2 + 1])])

\* Faulty variant: the exponent counted from the month, not from month - 1.
Oil_Production_from_month(initial_production, decline_rate) ==
    LET p == PowSeq(One - decline_rate, Horizon + 1)
    IN  Col([m \in months |-> MulFix(initial_production, p[m + 1])])

\* df['Oil_Production']
Oil_Production(initial_production, decline_rate) ==
    LET p == PowSeq(One - decline_rate, Horizon)
    IN  Col([m \in months |-> MulFix(initial_production, p[m])])

\* df['Gas_Production']
Gas_Production(oil) == Col([m \in months |-> oil[m] * GasOilRatio])

\* df[production] * price / 1000
Revenue(production, price) ==
    Col([m \in months |-> MulFix(production[m], price) \div 1000])

\* df['Operating_Expenses']
Operating_Expenses ==
    LET p == PowSeq(One + cost_escalation \div 12, Horizon)
    IN  Col([m \in months |-> base_opex * p[m]])

\* df['Severance_Tax']
Severance_Tax(total_revenue) ==
    Col([m \in months |-> MulFix(total_revenue[m], SeveranceRate)])

\* df['Net_Operating_Income'] = df['Total_Revenue'] - df['Total_OpEx']
Net_Operating_Income(total_revenue, total_opex) ==
    Col([m \in months |-> total_revenue[m] - total_opex[m]])

\* Faulty variant: the maintenance tail of the schedule left out.
CapEx_truncated ==
    Col([m \in months |-> IF m <= 24 THEN capex_schedule[m] * Scale ELSE 0])

\* df['CapEx']
CapEx == Col([m \in months |-> capex_schedule[m] * Scale])

\* Faulty variant: capital expenditure added instead of subtracted.
Net_Cash_Flow_added(noi, capex) == Col([m \in months |-> noi[m] + capex[m]])

\* df['Net_Cash_Flow'] = df['Net_Operating_Income'] - df['CapEx']
Net_Cash_Flow(noi, capex) == Col([m \in months |-> noi[m] - capex[m]])

\* Series.cumsum(): a running total carried from one entry to the next.
NextCum(s, out) ==
    Append(out, (IF Len(out) = 0 THEN 0 ELSE out[Len(out)]) + s[Len(out) + 1])

RECURSIVE ExtendCum(_, _, _)
ExtendCum(s, out, k) ==
    IF Len(out) >= Len(s) \/ k <= 0 THEN out
    ELSE IF k = 1 THEN NextCum(s, out)
    ELSE ExtendCum(s, ExtendCum(s, out, k \div 2), k - k \div 2)

\* Faulty variant: the running total lags one entry behind.
cumsum_lagging(s) == <<0>> \o SubSeq(ExtendCum(s, <<>>, Len(s)), 1, Len(s) - 1)

cumsum(s) == ExtendCum(s, <<>>, Len(s))

\* Faulty variant: month m discounted over m - 1 months.
PV_Factor_late(discount_rate) ==
    LET monthly_discount == discount_rate \div 12
        p == PowSeq(One + monthly_discount, Horizon + 1)
    IN  Col([m \in months |-> DivFix(One, p[m])])

\* Faulty variant: the cash flows compounded instead of discounted.
PV_Factor_compounding(discount_rate) ==
    LET monthly_discount == discount_rate \div 12
        p == PowSeq(One + monthly_discount, Horizon + 1)
    IN  Col([m \in months |-> p[m + 1]])

\* df['PV_Factor'] = [(1 + monthly_discount) ** -month for month in months]
PV_Factor(discount_rate) ==
    LET monthly_discount == discount_rate \div 12
        p == PowSeq(One + monthly_discount, Horizon + 1)
    IN  Col([m \in months |-> DivFix(One, p[m + 1])])

\* df['PV_Cash_Flow'] = df['Net_Cash_Flow'] * df['PV_Factor']
PV_Cash_Flow(ncf, factor) ==
    Col([m \in months |-> MulFix(ncf[m], factor[m])])

\* The payback loop: the first index whose cumulative cash flow is >= 0,
\* the default 60 when the loop ends without a break.
RECURSIVE payback_from(_, _)
payback_from(cum, k) ==
    IF k > Len(cum) THEN 60
    ELSE IF cum[k] >= 0 THEN k
    ELSE payback_from(cum, k + 1)

\* Faulty variant: the loop without its break keeps the last such index.
RECURSIVE payback_last_from(_, _)
payback_last_from(cum, k) ==
    IF k < 1 THEN 60
    ELSE IF cum[k] >= 0 THEN k
    ELSE payback_last_from(cum, k - 1)

payback_last(cum) == payback_last_from(cum, Len(cum))

payback_month(cum) == payback_from(cum, 1)

(***************************************************************************)
(* calculate_irr_scipy.  fsolve is scipy's: the model takes its outcome    *)
(* as given.  It either returns a rate (the root, or the last iterate      *)
(* with a RuntimeWarning when it did not converge), or raises.             *)
(***************************************************************************)
Rates == {Fx(-5, 1), Fx(12, 100), Fx(25, 1)}

FsolveOutcomes ==
    {[kind |-> k, x |-> r] : k \in {"converged", "not_converged"}, r \in Rates}
    \cup {[kind |-> "raised", x |-> 0]}

\* Faulty variant: the rate returned without the cap.
calculate_irr_unclamped(cash_flows, fsolve) ==
    IF fsolve.kind = "raised" THEN 0 ELSE fsolve.x * 100

calculate_irr_scipy(cash_flows, fsolve) ==
    IF fsolve.kind = "raised"
    THEN 0
    ELSE LET irr == fsolve.x * 100
         IN  PyMax(PyMin(irr, 1000 * Scale), -100 * Scale)

\* The whole function: (df, summary).
calculate_oil_gas_model(oil_price, gas_price, initial_production, decline_rate_pct, discount_rate_pct, fsolve) ==
    LET decline_rate == decline_rate_pct \div 100
        discount_rate == discount_rate_pct \div 100
        oil == Oil_Production(initial_production, decline_rate)
        gas == Gas_Production(oil)
        oil_rev == Revenue(oil, oil_price)
        gas_rev == Revenue(gas, gas_price)
        total_rev == Col([m \in months |-> oil_rev[m] + gas_rev[m]])
        opex == Operating_Expenses
        sev == Severance_Tax(total_rev)
        total_opex == Col([m \in months |-> opex[m] + sev[m]])
        noi == Net_Operating_Income(total_rev, total_opex)
        capex == CapEx
        ncf == Net_Cash_Flow(noi, capex)
        cum == cumsum(ncf)
        factor == PV_Factor(discount_rate)
        pv == PV_Cash_Flow(ncf, factor)
    IN  [df |->
            [Oil_Production |-> oil, Gas_Production |-> gas,
             Oil_Revenue |-> oil_rev, Gas_Revenue |-> gas_rev,
             Total_Revenue |-> total_rev, Operating_Expenses |-> opex,
             Severance_Tax |-> sev, Total_OpEx |-> total_opex,
             Net_Operating_Income |-> noi, CapEx |-> capex,
             Net_Cash_Flow |-> ncf, Cumulative_Cash_Flow |-> cum,
             PV_Factor |-> factor, PV_Cash_Flow |-> pv],
         summary |->
            [Total_Investment |-> SeriesSum(capex),
             Total_Revenue |-> SeriesSum(total_rev),
             NPV |-> SeriesSum(pv),
             IRR |-> calculate_irr_scipy(ncf, fsolve),
             Payback_Months |-> payback_month(cum),
             Final_Cumulative_CF |-> cum[Horizon],
             Peak_Production |-> oil[1],
             Final_Production |-> oil[Horizon]]]

(***************************************************************************)
(* run_monte_carlo_simulation: the sampling of one trial.  A draw of       *)
(* np.random.normal(loc, scale) is loc + scale * z for a standard normal   *)
(* deviate z.                                                              *)
(***************************************************************************)
Normal(loc, scale, z) == loc + MulFix(scale, z)

\* Faulty variant: the draw taken without its floor.
sample_oil_price_unfloored(base, vol, z) ==
    Normal(base.oil_price, MulFix(base.oil_price, vol.oil_price), z)

sample_oil_price(base, vol, z) ==
    PyMax(20 * Scale,
          Normal(base.oil_price, MulFix(base.oil_price, vol.oil_price), z))

sample_gas_price(base, vol, z) ==
    PyMax(1 * Scale,
          Normal(base.gas_price, MulFix(base.gas_price, vol.gas_price), z))

sample_initial_production(base, vol, z) ==
    PyMax(100 * Scale,
          Normal(base.initial_production,
                 MulFix(base.initial_production, vol.initial_production), z))

sample_decline_rate(base, vol, z) ==
    PyMax(Fx(1, 2),
          PyMin(10 * Scale,
                Normal(base.decline_rate,
                       MulFix(base.decline_rate, vol.decline_rate), z)))

\* np.random.normal raises ValueError when its scale is negative.
normal_raises(base, vol) ==
    \/ MulFix(base.oil_price, vol.oil_price) < 0
    \/ MulFix(base.gas_price, vol.gas_price) < 0
    \/ MulFix(base.initial_production, vol.initial_production) < 0
    \/ MulFix(base.decline_rate, vol.decline_rate) < 0

\* Faulty variant: the discount rate drawn like the other four arguments.
trial_call_perturbed(base, vol, z1, z2, z3, z4) ==
    [oil_price |-> sample_oil_price(base, vol, z1),
     gas_price |-> sample_gas_price(base, vol, z2),
     initial_production |-> sample_initial_production(base, vol, z3),
     decline_rate |-> sample_decline_rate(base, vol, z4),
     discount_rate |->
         Normal(base.discount_rate,
                MulFix(base.discount_rate, vol.oil_price), z1)]

\* The five arguments of a trial's call of calculate_oil_gas_model.
trial_call(base, vol, z1, z2, z3, z4) ==
    [oil_price |-> sample_oil_price(base, vol, z1),
     gas_price |-> sample_gas_price(base, vol, z2),
     initial_production |-> sample_initial_production(base, vol, z3),
     decline_rate |-> sample_decline_rate(base, vol, z4),
     discount_rate |-> base.discount_rate]

\* Faulty variant: the new run takes the place of the runs stored so far.
append_run_overwriting(res, run) == <<run>>

\* results.append(run)
append_run(res, run) == Append(res, run)

\* Faulty variant: the pass counted from 0, one step behind.
trial_progress_lagging(k, n) == Fx(k, n)

\* progress = (i + 1) / num_simulations, k being the loop index i.
trial_progress(k, n) == Fx(k + 1, n)

\* The dict appended to results for one trial.
run_record(oil_price, gas_price, initial_production, decline_rate, s) ==
    [Oil_Price |-> oil_price, Gas_Price |-> gas_price,
     Initial_Production |-> initial_production,
     Decline_Rate |-> decline_rate,
     NPV |-> s.NPV, IRR |-> s.IRR, Payback_Months |-> s.Payback_Months,
     Final_Cumulative_CF |-> s.Final_Cumulative_CF,
     Total_Investment |-> s.Total_Investment,
     Total_Revenue |-> s.Total_Revenue]

(***************************************************************************)
(* create_risk_assessment.  pandas and numpy answer nan where a statistic  *)
(* is undefined; NaN and Inf stand for float('nan') and float('inf').      *)
(***************************************************************************)
NaN == -2147483647
Inf == 2147483647

Abs(x) == IF x < 0 THEN -x ELSE x

\* The largest r in lo .. hi - 1 with r * r <= v.
RECURSIVE SqrtBetween(_, _, _)
SqrtBetween(v, lo, hi) ==
    IF hi - lo <= 1
    THEN lo
    ELSE LET mid == (lo + hi) \div 2
         IN  IF MulFix(mid, mid) <= v
             THEN SqrtBetween(v, mid, hi)
             ELSE SqrtBetween(v, lo, mid)

\* Roots are searched below SqrtCap, whose square is still an integer of the
\* model.
SqrtCap == 460 * Scale

Sqrt(v) == SqrtBetween(v, 0, PyMin(PyMax(v, One), SqrtCap) + 1)

\* The values in ascending order.
Sorted(s) == SortSeq(s, LAMBDA x, y : x < y)

\* Series.mean
mean(values) == SeriesSum(values) \div Len(values)

\* Deviations of StdFine or more are squared in units of StdUnit, so that the
\* squares and their sum stay in the integer range.
StdFine == 100 * Scale
StdUnit == 100

\* Series.std: the sample standard deviation, nan for fewer than two values.
std(values) ==
    IF Len(values) < 2
    THEN NaN
    ELSE LET avg == mean(values)
             n == Len(values)
             unit == IF \A k \in 1 .. n : Abs(avg - values[k]) < StdFine
                     THEN 1 ELSE StdUnit
             sq == [k \in 1 .. n |->
                       MulFix((avg - values[k]) \div unit,
                              (avg - values[k]) \div unit)]
         IN  Sqrt(SeriesSum(sq) \div (n - 1)) * unit

\* Series.quantile(pct / 100) and np.percentile(values, pct): linear
\* interpolation between the two order statistics around (n - 1) * pct / 100.
percentile(values, pct) ==
    LET sorted == Sorted(values)
        n == Len(values)
        lo == ((n - 1) * pct) \div 100
        frac == Fx(((n - 1) * pct) % 100, 100)
    IN  IF lo + 1 >= n
        THEN sorted[n]
        ELSE sorted[lo + 1] + MulFix(sorted[lo + 2] - sorted[lo + 1], frac)

\* Faulty variant: runs at zero counted as positive.
probability_positive_nonneg(npv_values) ==
    Fx(Len(SelectSeq(npv_values, LAMBDA v : v >= 0)), Len(npv_values)) * 100

\* (npv_values > 0).mean() * 100
probability_positive(npv_values) ==
    Fx(Len(SelectSeq(npv_values, LAMBDA v : v > 0)), Len(npv_values)) * 100

\* Faulty variant: the threshold is the median, not the 75th percentile.
probability_excellent_above_median(npv_values) ==
    LET q == percentile(npv_values, 50)
    IN  Fx(Len(SelectSeq(npv_values, LAMBDA v : v > q)), Len(npv_values)) * 100

\* Faulty variant: runs at the 75th percentile counted as above it.
probability_excellent_inclusive(npv_values) ==
    LET q == percentile(npv_values, 75)
    IN  Fx(Len(SelectSeq(npv_values, LAMBDA v : v >= q)), Len(npv_values)) * 100

\* (npv_values > npv_values.quantile(0.75)).mean() * 100
probability_excellent(npv_values) ==
    LET q == percentile(npv_values, 75)
    IN  Fx(Len(SelectSeq(npv_values, LAMBDA v : v > q)), Len(npv_values)) * 100

\* std_dev / abs(expected_value) if expected_value != 0 else float('inf')
coefficient_of_variation(std_dev, expected_value) ==
    IF expected_value = 0 THEN Inf
    ELSE IF std_dev = NaN THEN NaN
    ELSE DivFix(std_dev, Abs(expected_value))

\* downside_returns.std() if len(downside_returns) > 0 else 0
downside_deviation(npv_values, expected_value) ==
    LET downside_returns == SelectSeq(npv_values, LAMBDA v : v < expected_value)
    IN  IF Len(downside_returns) > 0 THEN std(downside_returns) ELSE 0

\* expected_value / std_dev if std_dev > 0 else 0; nan > 0 is False.
sharpe_ratio(expected_value, std_dev) ==
    IF std_dev # NaN /\ std_dev > 0 THEN DivFix(expected_value, std_dev) ELSE 0

\* The colour of the excellent-return card.
excellent_colour(prob_excellent) ==
    IF prob_excellent > 25 * Scale THEN "#28a745"
    ELSE IF prob_excellent > 15 * Scale THEN "#ffc107"
    ELSE "#dc3545"

\* The dict the function returns for a batch that has an NPV column.
create_risk_assessment(batch) ==
    LET npv_values == [k \in 1 .. Len(batch) |-> batch[k].NPV]
        expected_value == mean(npv_values)
        std_dev == std(npv_values)
    IN  [Expected_NPV |-> expected_value,
         Probability_Positive |-> probability_positive(npv_values),
         Probability_Excellent |-> probability_excellent(npv_values),
         Value_at_Risk_5 |-> percentile(npv_values, 5),
         Standard_Deviation |-> std_dev,
         Coefficient_of_Variation |->
             coefficient_of_variation(std_dev, expected_value),
         Downside_Deviation |-> downside_deviation(npv_values, expected_value),
         Risk_Adjusted_Return |-> sharpe_ratio(expected_value, std_dev),
         P10_NPV |-> percentile(npv_values, 10),
         P50_NPV |-> percentile(npv_values, 50),
         P90_NPV |-> percentile(npv_values, 90)]

(***************************************************************************)
(* main: the three scenarios of the scenario analysis.                     *)
(***************************************************************************)
\* Faulty variant: the factors of the two outer scenarios exchanged.
scenarios_exchanged(p) ==
    [Conservative |->
        [oil_price |-> MulFix(p.oil_price, Fx(12, 10)),
         gas_price |-> MulFix(p.gas_price, Fx(12, 10)),
         initial_production |-> MulFix(p.initial_production, Fx(12, 10)),
         decline_rate |-> MulFix(p.decline_rate, Fx(7, 10)),
         discount_rate |-> p.discount_rate],
     Base_Case |-> p,
     Optimistic |->
        [oil_price |-> MulFix(p.oil_price, Fx(8, 10)),
         gas_price |-> MulFix(p.gas_price, Fx(8, 10)),
         initial_production |-> MulFix(p.initial_production, Fx(8, 10)),
         decline_rate |-> MulFix(p.decline_rate, Fx(15, 10)),
         discount_rate |-> p.discount_rate]]

\* The scenarios dict, Base_Case standing for the key 'Base Case'.
scenarios(p) ==
    [Conservative |->
        [oil_price |-> MulFix(p.oil_price, Fx(8, 10)),
         gas_price |-> MulFix(p.gas_price, Fx(8, 10)),
         initial_production |-> MulFix(p.initial_production, Fx(8, 10)),
         decline_rate |-> MulFix(p.decline_rate, Fx(15, 10)),
         discount_rate |-> p.discount_rate],
     Base_Case |-> p,
     Optimistic |->
        [oil_price |-> MulFix(p.oil_price, Fx(12, 10)),
         gas_price |-> MulFix(p.gas_price, Fx(12, 10)),
         initial_production |-> MulFix(p.initial_production, Fx(12, 10)),
         decline_rate |-> MulFix(p.decline_rate, Fx(7, 10)),
         discount_rate |-> p.discount_rate]]

\* calculate_oil_gas_model(**params)[1]
scenario_summary(p, fsolve) ==
    calculate_oil_gas_model(p.oil_price, p.gas_price, p.initial_production,
                            p.decline_rate, p.discount_rate, fsolve).summary

(***************************************************************************)
(* State                                                                   *)
(***************************************************************************)
VARIABLES
    pc,                  \* "start", "rendered", "mc_loop", "mc_done",
                         \* "mc_raised", "assessed", "assess_raised"
    params,              \* the five arguments of the projection
    solver,              \* what fsolve answers in this run
    df,                  \* the projection's monthly columns
    summary,             \* the projection's summary metrics
    outcome,             \* how the projection call ended: "pending", "returned"
    base_params,         \* run_monte_carlo_simulation's base_params
    volatility_factors,  \* its volatility_factors
    num_simulations,     \* its num_simulations
    i,                   \* trials completed so far
    results,             \* its results list
    progress,            \* the value last given to progress_bar.progress
    model_call,          \* the arguments of the trial's projector call
    model_return,        \* the summary that call returned
    calls,               \* projector calls made by the simulation so far
    mc_results,          \* the DataFrame the simulation returned
    cancel_requested,    \* the user has asked the simulation to stop
    completed_at_cancel, \* trials completed when the user asked
    rng,                 \* the deviates np.random yields after its seeding
    first_batch,         \* the batch of the first of two seeded calls
    risk_metrics,        \* the dict create_risk_assessment returned
    risk_outcome,        \* how that call ended: "pending", "returned", "KeyError"
    scenario_results,    \* the summaries of the three scenarios
    session_state,       \* st.session_state: kept from one run of main to the next
    stored_base,         \* the base_params the stored batch was simulated from
    exported,            \* the arguments of the last export
    reruns               \* runs of main after the first

vars == <<pc, params, solver, df, summary, outcome, base_params, volatility_factors,
          num_simulations, i, results, progress, model_call, model_return, calls,
          mc_results, cancel_requested, completed_at_cancel, rng, first_batch,
          risk_metrics, risk_outcome, scenario_results, session_state,
          stored_base, exported, reruns>>

mc_vars == <<base_params, volatility_factors, num_simulations, i, results,
             progress, model_call, model_return, calls, mc_results>>

proj_vars == <<params, solver, df, summary, outcome>>

cancel_vars == <<cancel_requested, completed_at_cancel>>

seed_vars == <<rng, first_batch>>

risk_vars == <<risk_metrics, risk_outcome>>

ui_vars == <<scenario_results, session_state, stored_base, exported, reruns>>

None == <<>>

\* Arguments a caller may hand to calculate_oil_gas_model.
OilPrices == {Fx(-10, 1), Fx(20, 1), Fx(65, 1)}
GasPrices == {Fx(-1, 1), Fx(1, 1), Fx(13, 4)}
Productions == {Fx(-100, 1), 0, Fx(100, 1), Fx(1000, 1)}
DeclineRates == {0, Fx(1, 2), Fx(3, 2), Fx(10, 1), Fx(100, 1), Fx(150, 1)}
DiscountRates == {0, Fx(10, 1), Fx(20, 1)}

\* What fsolve answers for the cash flows main produces.
UISolverOutcomes ==
    {[kind |-> "converged", x |-> Fx(12, 100)], [kind |-> "raised", x |-> 0]}

\* Slider positions of main.
SliderParams ==
    [oil_price : {Fx(65, 1)}, gas_price : {Fx(13, 4)},
     initial_production : {Fx(1000, 1)},
     decline_rate : {Fx(3, 2), Fx(5, 1)},
     discount_rate : {Fx(10, 1)}]

\* Positions of the four volatility sliders, each divided by 100.
VolatilityChoices ==
    {[oil_price |-> Fx(15, 100), gas_price |-> Fx(25, 100),
      initial_production |-> Fx(10, 100), decline_rate |-> Fx(20, 100)],
     [oil_price |-> Fx(50, 100), gas_price |-> Fx(60, 100),
      initial_production |-> Fx(30, 100), decline_rate |-> Fx(50, 100)]}

\* Standard normal deviates a trial may draw.
ZDraws == {Fx(-3, 1), Fx(1, 1)}
ZDeclineDraws == {Fx(-3, 1), Fx(3, 1)}
ZProductionDraws == {Fx(-3, 1)}

MCIdle ==
    /\ base_params = None
    /\ volatility_factors = None
    /\ num_simulations = 0
    /\ i = 0
    /\ results = <<>>
    /\ progress = 0
    /\ model_call = None
    /\ model_return = None
    /\ calls = 0
    /\ mc_results = None

\* A fresh session: no scenario run, nothing stored, nothing exported.
UIIdle ==
    /\ scenario_results = None
    /\ session_state = [mc_results |-> None, risk_metrics |-> None]
    /\ stored_base = None
    /\ exported = None
    /\ reruns = 0

\* Nothing around the simulation has happened yet.
AuxIdle ==
    /\ cancel_requested = FALSE
    /\ completed_at_cancel = 0
    /\ rng = None
    /\ first_batch = None
    /\ risk_metrics = None
    /\ risk_outcome = "pending"
    /\ UIIdle

\* A call of calculate_oil_gas_model with arguments of the caller's choice.
Init ==
    /\ pc = "start"
    /\ params \in [oil_price : OilPrices, gas_price : GasPrices,
                   initial_production : Productions,
                   decline_rate : DeclineRates,
                   discount_rate : DiscountRates]
    /\ solver \in FsolveOutcomes
    /\ df = None
    /\ summary = None
    /\ outcome = "pending"
    /\ MCIdle
    /\ AuxIdle

\* A run of main: the arguments are slider positions.
InitMC ==
    /\ pc = "start"
    /\ params \in SliderParams
    /\ solver \in UISolverOutcomes
    /\ df = None
    /\ summary = None
    /\ outcome = "pending"
    /\ MCIdle
    /\ AuxIdle

\* The scenario button: each scenario is projected and its summary kept.
RunScenarioAnalysis ==
    /\ pc = "rendered"
    /\ LET sc == scenarios(params)
       IN  scenario_results' =
               [Conservative |-> scenario_summary(sc.Conservative, solver),
                Base_Case |-> scenario_summary(sc.Base_Case, solver),
                Optimistic |-> scenario_summary(sc.Optimistic, solver)]
    /\ pc' = "scenarios_shown"
    /\ UNCHANGED <<proj_vars, mc_vars, cancel_vars, seed_vars, risk_vars,
                   session_state, stored_base, exported, reruns>>

\* Faulty variant: the projection also leaves its summary in the session state.
Project_storing ==
    /\ pc = "start"
    /\ LET r == calculate_oil_gas_model(params.oil_price, params.gas_price,
                    params.initial_production, params.decline_rate,
                    params.discount_rate, solver)
       IN  /\ df' = r.df
           /\ summary' = r.summary
           /\ session_state' = [session_state EXCEPT !.risk_metrics = r.summary]
    /\ outcome' = "returned"
    /\ pc' = "rendered"
    /\ UNCHANGED <<params, solver>>
    /\ UNCHANGED <<mc_vars, cancel_vars, seed_vars, risk_vars,
                   scenario_results, stored_base, exported, reruns>>

\* df, summary = calculate_oil_gas_model(...)
Project ==
    /\ pc = "start"
    /\ LET r == calculate_oil_gas_model(params.oil_price, params.gas_price,
                    params.initial_production, params.decline_rate,
                    params.discount_rate, solver)
       IN  /\ df' = r.df
           /\ summary' = r.summary
    /\ outcome' = "returned"
    /\ pc' = "rendered"
    /\ UNCHANGED <<params, solver>>
    /\ UNCHANGED <<mc_vars, cancel_vars, seed_vars, risk_vars, ui_vars>>

\* Faulty variant: the list of an earlier call is kept.
initial_results_kept == results

\* results = []
initial_results == <<>>

\* The Monte Carlo button: run_monte_carlo_simulation is entered.
ClickMonteCarlo ==
    /\ pc = "rendered"
    /\ \E n \in 1 .. MaxSims, v \in VolatilityChoices :
          /\ num_simulations' = n
          /\ volatility_factors' = v
    /\ base_params' = params
    /\ results' = initial_results
    /\ i' = 0
    /\ calls' = 0
    /\ progress' = 0
    /\ pc' = "mc_loop"
    /\ UNCHANGED <<proj_vars, model_call, model_return, mc_results,
                   cancel_vars, seed_vars, risk_vars, ui_vars>>

\* The loop body for the deviates z1 .. z4: sample, project, append, report
\* progress.
Trial(z1, z2, z3, z4) ==
    /\ pc = "mc_loop"
    /\ i < num_simulations
    /\ ~normal_raises(base_params, volatility_factors)
    /\ LET a == trial_call(base_params, volatility_factors, z1, z2, z3, z4)
           r == calculate_oil_gas_model(a.oil_price, a.gas_price,
                    a.initial_production, a.decline_rate, a.discount_rate,
                    solver)
       IN  /\ model_call' = a
           /\ model_return' = r.summary
           /\ results' = append_run(results,
                  run_record(a.oil_price, a.gas_price, a.initial_production,
                             a.decline_rate, r.summary))
    /\ calls' = calls + 1
    /\ progress' = trial_progress(i, num_simulations)
    /\ i' = i + 1
    /\ UNCHANGED <<pc, proj_vars, base_params, volatility_factors,
                   num_simulations, mc_results, cancel_vars, seed_vars,
                   risk_vars, ui_vars>>

\* One pass of the loop, np.random not seeded: any deviates.
MCTrial ==
    /\ rng = None
    /\ \E z1 \in ZDraws, z2 \in ZDraws, z3 \in ZProductionDraws,
          z4 \in ZDeclineDraws :
          Trial(z1, z2, z3, z4)

\* One pass of the loop after np.random.seed: the deviates of the stream.
MCTrialSeeded ==
    /\ rng # None
    /\ i < Len(rng)
    /\ Trial(rng[i + 1].z1, rng[i + 1].z2, rng[i + 1].z3, rng[i + 1].z4)

\* A draw raises: nothing in the loop catches it and the call ends with it.
MCTrialRaises ==
    /\ pc = "mc_loop"
    /\ i < num_simulations
    /\ normal_raises(base_params, volatility_factors)
    /\ pc' = "mc_raised"
    /\ UNCHANGED <<proj_vars, mc_vars, cancel_vars, seed_vars, risk_vars,
                   ui_vars>>

\* The loop is over: return pd.DataFrame(results).
MCReturn ==
    /\ pc = "mc_loop"
    /\ i = num_simulations
    /\ mc_results' = results
    /\ pc' = "mc_done"
    /\ UNCHANGED <<proj_vars, base_params, volatility_factors, num_simulations,
                   i, results, progress, model_call, model_return, calls,
                   cancel_vars, seed_vars, risk_vars, ui_vars>>

\* The user asks the running simulation to stop.
RequestCancel ==
    /\ pc = "mc_loop"
    /\ ~cancel_requested
    /\ cancel_requested' = TRUE
    /\ completed_at_cancel' = i
    /\ UNCHANGED <<pc, proj_vars, mc_vars, seed_vars, risk_vars, ui_vars>>

Next == Project

Spec == Init /\ [][Next]_vars

NextMC == Project \/ ClickMonteCarlo \/ MCTrial \/ MCReturn

SpecMC == InitMC /\ [][NextMC]_vars

\* risk_metrics = create_risk_assessment(mc_results).  A DataFrame made from
\* an empty list has no columns, so mc_results['NPV'] raises KeyError.
AssessRisk ==
    /\ pc = "mc_done"
    /\ IF Len(mc_results) = 0
       THEN /\ risk_outcome' = "KeyError"
            /\ risk_metrics' = None
            /\ pc' = "assess_raised"
       ELSE /\ risk_outcome' = "returned"
            /\ risk_metrics' = create_risk_assessment(mc_results)
            /\ pc' = "assessed"
    /\ UNCHANGED <<proj_vars, mc_vars, cancel_vars, seed_vars, ui_vars>>

\* NPVs of the runs of a batch handed to create_risk_assessment.
NPVValues == {Fx(-2, 1), 0, Fx(1, 1), Fx(3, 1)}

Batches ==
    UNION {[1 .. n -> {[NPV |-> v] : v \in NPVValues}] : n \in 0 .. MaxBatch}

\* create_risk_assessment called with a batch of the caller's choice.
InitRisk ==
    /\ pc = "mc_done"
    /\ params = None
    /\ solver = None
    /\ df = None
    /\ summary = None
    /\ outcome = "pending"
    /\ base_params = None
    /\ volatility_factors = None
    /\ mc_results \in Batches
    /\ num_simulations = Len(mc_results)
    /\ i = num_simulations
    /\ results = mc_results
    /\ progress = 0
    /\ model_call = None
    /\ model_return = None
    /\ calls = num_simulations
    /\ AuxIdle

NextRisk == AssessRisk

SpecRisk == InitRisk /\ [][NextRisk]_vars

\* st.session_state['mc_results'] = mc_results, and the same for risk_metrics.
StoreSession ==
    /\ pc = "assessed"
    /\ session_state' = [mc_results |-> mc_results, risk_metrics |-> risk_metrics]
    /\ stored_base' = base_params
    /\ pc' = "stored"
    /\ UNCHANGED <<proj_vars, mc_vars, cancel_vars, seed_vars, risk_vars,
                   scenario_results, exported, reruns>>

\* An export button: the file is written from the current sliders and
\* projection and from what the session state holds.
Export ==
    /\ pc = "rendered"
    /\ \E kind \in {"excel", "csv"} :
          exported' = [kind |-> kind, df |-> df, summary |-> summary,
                       params |-> params,
                       mc_results |-> session_state.mc_results,
                       risk_metrics |-> session_state.risk_metrics]
    /\ pc' = "exported"
    /\ UNCHANGED <<proj_vars, mc_vars, cancel_vars, seed_vars, risk_vars,
                   scenario_results, session_state, stored_base, reruns>>

\* The user moves sliders or clicks a button: main runs again from the top
\* with fresh locals; only st.session_state is kept.
Rerun ==
    /\ pc \in {"rendered", "scenarios_shown", "stored", "exported"}
    /\ reruns < MaxReruns
    /\ reruns' = reruns + 1
    /\ params' \in SliderParams
    /\ df' = None
    /\ summary' = None
    /\ outcome' = "pending"
    /\ base_params' = None
    /\ volatility_factors' = None
    /\ num_simulations' = 0
    /\ i' = 0
    /\ results' = <<>>
    /\ progress' = 0
    /\ model_call' = None
    /\ model_return' = None
    /\ calls' = 0
    /\ mc_results' = None
    /\ risk_metrics' = None
    /\ risk_outcome' = "pending"
    /\ scenario_results' = None
    /\ pc' = "start"
    /\ UNCHANGED <<solver, cancel_vars, seed_vars, session_state, stored_base,
                   exported>>

\* The Monte Carlo button, clicked in the first run of the session.
FirstRunMonteCarlo == reruns = 0 /\ ClickMonteCarlo

NextSession ==
    \/ Project
    \/ FirstRunMonteCarlo
    \/ MCTrial
    \/ MCReturn
    \/ AssessRisk
    \/ StoreSession
    \/ Export
    \/ Rerun

\* A session of main: a first run and the runs that user actions cause.
SpecSession == InitMC /\ [][NextSession]_vars

\* The numbers of simulations the selectbox offers.
UIBatchSizes == {500, 1000, 2000, 5000}

\* Batches of those sizes.  In a patterned batch, of every four runs in a row
\* a have the NPV 3, b - a the NPV 1 and the others the NPV -2; in a scattered
\* batch no two runs have the same NPV and the runs are in no order.
PatternedBatch(n, a, b) ==
    [k \in 1 .. n |->
        [NPV |-> IF k % 4 < a THEN Fx(3, 1)
                 ELSE IF k % 4 < b THEN Fx(1, 1)
                 ELSE Fx(-2, 1)]]

ScatteredBatch(n) == [k \in 1 .. n |-> [NPV |-> ((k * 37) % n) - (n \div 2)]]

UIBatches ==
    {PatternedBatch(n, a, b) : n \in UIBatchSizes, a \in 0 .. 4, b \in 0 .. 4}
    \cup {ScatteredBatch(n) : n \in UIBatchSizes}

\* create_risk_assessment called with a batch of a size the UI offers.
InitUIBatch ==
    /\ pc = "mc_done"
    /\ params = None
    /\ solver = None
    /\ df = None
    /\ summary = None
    /\ outcome = "pending"
    /\ base_params = None
    /\ volatility_factors = None
    /\ mc_results \in UIBatches
    /\ num_simulations = Len(mc_results)
    /\ i = num_simulations
    /\ results = mc_results
    /\ progress = 0
    /\ model_call = None
    /\ model_return = None
    /\ calls = num_simulations
    /\ AuxIdle

NextUIBatch == AssessRisk

SpecUIBatch == InitUIBatch /\ [][NextUIBatch]_vars

\* Volatilities a caller of run_monte_carlo_simulation may pass.
CallVolatilities ==
    VolatilityChoices \cup
    {[oil_price |-> Fx(-15, 100), gas_price |-> Fx(25, 100),
      initial_production |-> Fx(10, 100), decline_rate |-> Fx(20, 100)]}

\* run_monte_carlo_simulation called with arguments of the caller's choice.
InitCall ==
    /\ pc = "mc_loop"
    /\ params \in SliderParams
    /\ solver \in UISolverOutcomes
    /\ df = None
    /\ summary = None
    /\ outcome = "pending"
    /\ base_params = params
    /\ volatility_factors \in CallVolatilities
    /\ num_simulations \in 0 .. MaxSims
    /\ i = 0
    /\ results = <<>>
    /\ progress = 0
    /\ model_call = None
    /\ model_return = None
    /\ calls = 0
    /\ mc_results = None
    /\ AuxIdle

NextCall == MCTrial \/ MCTrialRaises \/ MCReturn \/ RequestCancel

SpecCall == InitCall /\ [][NextCall]_vars

\* Deviates np.random yields, trial by trial, after np.random.seed.
SeedDraws ==
    [z1 : ZDraws, z2 : {Fx(1, 1)}, z3 : ZProductionDraws, z4 : ZDeclineDraws]

\* The caller seeds np.random and calls run_monte_carlo_simulation.
InitSeed ==
    /\ pc = "mc_loop"
    /\ params \in SliderParams
    /\ solver \in UISolverOutcomes
    /\ df = None
    /\ summary = None
    /\ outcome = "pending"
    /\ base_params = params
    /\ volatility_factors \in VolatilityChoices
    /\ num_simulations \in 1 .. MaxSims
    /\ i = 0
    /\ results = <<>>
    /\ progress = 0
    /\ model_call = None
    /\ model_return = None
    /\ calls = 0
    /\ mc_results = None
    /\ cancel_requested = FALSE
    /\ completed_at_cancel = 0
    /\ rng \in [1 .. num_simulations -> SeedDraws]
    /\ first_batch = None
    /\ risk_metrics = None
    /\ risk_outcome = "pending"
    /\ UIIdle

\* The caller keeps the first batch, seeds np.random with the same seed and
\* calls run_monte_carlo_simulation again with the same arguments.
SecondCall ==
    /\ pc = "mc_done"
    /\ rng # None
    /\ first_batch = None
    /\ first_batch' = mc_results
    /\ results' = initial_results
    /\ i' = 0
    /\ calls' = 0
    /\ progress' = 0
    /\ pc' = "mc_loop"
    /\ UNCHANGED <<proj_vars, base_params, volatility_factors, num_simulations,
                   model_call, model_return, mc_results, cancel_vars, rng,
                   risk_vars, ui_vars>>

NextSeed == MCTrialSeeded \/ MCReturn \/ SecondCall

SpecSeed == InitSeed /\ [][NextSeed]_vars

\* Slider positions for which every scenario's products stay in the integer
\* range of the model.
ScenarioBases ==
    [oil_price : {Fx(30, 1), Fx(65, 1), Fx(120, 1)},
     gas_price : {Fx(1, 1), Fx(13, 4), Fx(8, 1)},
     initial_production : {Fx(100, 1), Fx(1000, 1)},
     decline_rate : {Fx(1, 2), Fx(3, 2), Fx(5, 1)},
     discount_rate : {Fx(5, 1), Fx(10, 1), Fx(20, 1)}]
    \cup
    [oil_price : {Fx(30, 1)},
     gas_price : {Fx(1, 1), Fx(13, 4)},
     initial_production : {Fx(3000, 1)},
     decline_rate : {Fx(1, 2), Fx(3, 2), Fx(5, 1)},
     discount_rate : {Fx(5, 1), Fx(10, 1), Fx(20, 1)}]

\* A run of main in which the scenario button is clicked.
InitScenario ==
    /\ pc = "start"
    /\ params \in ScenarioBases
    /\ solver \in UISolverOutcomes
    /\ df = None
    /\ summary = None
    /\ outcome = "pending"
    /\ MCIdle
    /\ AuxIdle

NextScenario == Project \/ RunScenarioAnalysis

SpecScenario == InitScenario /\ [][NextScenario]_vars

\* Discount rates of the slider's range, and none at all.
RateChoices == {0, Fx(5, 1), Fx(10, 1), Fx(20, 1)}

\* Arguments for the study of NPV against the discount rate: wells that pay
\* back, wells that never do, and steep declines that end in losing months.
RateStudyParams ==
    [oil_price : {Fx(20, 1), Fx(65, 1)},
     gas_price : {Fx(1, 1), Fx(13, 4)},
     initial_production : {Fx(1000, 1), Fx(3000, 1)},
     decline_rate : {Fx(1, 2), Fx(3, 2), Fx(15, 2), Fx(10, 1)},
     discount_rate : RateChoices]

\* A call of calculate_oil_gas_model with one of these arguments.
InitRate ==
    /\ pc = "start"
    /\ params \in RateStudyParams
    /\ solver \in UISolverOutcomes
    /\ df = None
    /\ summary = None
    /\ outcome = "pending"
    /\ MCIdle
    /\ AuxIdle

NextRate == Project

SpecRate == InitRate /\ [][NextRate]_vars

(***************************************************************************)
(* Properties                                                              *)
(***************************************************************************)
\* The projector's entry conditions as the design document states them.
InvalidParams(p) ==
    \/ p.oil_price < 0
    \/ p.gas_price < 0
    \/ p.initial_production <= 0
    \/ p.decline_rate >= 100 * Scale

Returned == pc = "rendered" /\ outcome = "returned"

\* C1: in every result, Cumulative_Cash_Flow at month m is the sum of
\* Net_Cash_Flow over months 1..m, for every m in 1..60.
C1_CumulativeIsPartialSum ==
    Returned =>
        \A m \in months :
            df.Cumulative_Cash_Flow[m] = SumRange(df.Net_Cash_Flow, 1, m)

C1_Witness ==
    /\ Returned
    /\ df.Net_Cash_Flow[1] < 0
    /\ df.Net_Cash_Flow[Horizon] > 0
    /\ df.Cumulative_Cash_Flow[Horizon] # df.Net_Cash_Flow[Horizon]
    /\ df.Cumulative_Cash_Flow[Horizon] = SumRange(df.Net_Cash_Flow, 1, Horizon)

\* C2: Payback_Months is the smallest month whose cumulative cash flow is
\* >= 0, and is 60 when the cumulative cash flow is negative at all 60 months.
C2_PaybackIsFirstNonNegative ==
    Returned =>
        LET cum == df.Cumulative_Cash_Flow
            hit == {m \in months : cum[m] >= 0}
        IN  IF hit = {}
            THEN summary.Payback_Months = 60
            ELSE /\ summary.Payback_Months \in hit
                 /\ \A k \in hit : summary.Payback_Months <= k

C2_Witness ==
    /\ Returned
    /\ summary.Payback_Months \in 2 .. 59
    /\ df.Cumulative_Cash_Flow[summary.Payback_Months] >= 0
    /\ df.Cumulative_Cash_Flow[summary.Payback_Months - 1] < 0
    /\ df.Cumulative_Cash_Flow[Horizon] >= 0

\* C3: for valid parameters with the decline rate strictly between 0 and 1,
\* oil production falls strictly from each month to the next and gas
\* production is 6 times oil production at every month.
C3_ProductionDeclines ==
    (/\ Returned
     /\ ~InvalidParams(params)
     /\ params.decline_rate > 0
     /\ params.decline_rate < 100 * Scale)
    => /\ \A m \in 1 .. Horizon - 1 :
              df.Oil_Production[m + 1] < df.Oil_Production[m]
       /\ \A m \in months :
              df.Gas_Production[m] = 6 * df.Oil_Production[m]

C3_Witness ==
    /\ Returned
    /\ ~InvalidParams(params)
    /\ params.decline_rate = Fx(10, 1)
    /\ df.Oil_Production[Horizon] > 0
    /\ df.Oil_Production[Horizon] < df.Oil_Production[Horizon - 1]
    /\ df.Gas_Production[Horizon] = 6 * df.Oil_Production[Horizon]

\* C4: a call with a negative oil or gas price, a zero or negative initial
\* production, or a decline rate >= 1 ends in InvalidParameterError and
\* returns no projection.
C4_InvalidInputRejected ==
    (pc # "start" /\ InvalidParams(params)) =>
        outcome = "InvalidParameterError"

\* C5: Total_Investment is the sum of the 60-entry capex schedule, the same
\* non-zero constant whatever the prices, production and rates.
C5_TotalInvestmentConstant ==
    Returned =>
        /\ summary.Total_Investment = SumRange(capex_schedule, 1, 60) * Scale
        /\ summary.Total_Investment = 1560 * Scale
        /\ summary.Total_Investment # 0

C5_Witness ==
    /\ Returned
    /\ params.oil_price = Fx(20, 1)
    /\ params.initial_production = Fx(100, 1)
    /\ summary.Total_Revenue < summary.Total_Investment
    /\ summary.Total_Investment = 1560 * Scale

\* C6: the discount factor at month m is (1 + discountRate/12)^(-m),
\* PV_Cash_Flow is Net_Cash_Flow times that factor, and NPV is the sum of
\* PV_Cash_Flow over the 60 months.
C6_Discounting ==
    Returned =>
        LET monthly == (params.discount_rate \div 100) \div 12
            pw == PowSeq(One + monthly, Horizon + 1)
        IN  /\ \A m \in months :
                  /\ df.PV_Factor[m] = DivFix(One, pw[m + 1])
                  /\ df.PV_Cash_Flow[m] =
                         MulFix(df.Net_Cash_Flow[m], df.PV_Factor[m])
            /\ summary.NPV = SumRange(df.PV_Cash_Flow, 1, Horizon)

C6_Witness ==
    /\ Returned
    /\ params.discount_rate > 0
    /\ df.PV_Factor[1] < One
    /\ df.PV_Factor[Horizon] < df.PV_Factor[1]
    /\ df.Net_Cash_Flow[Horizon] > 0
    /\ df.PV_Cash_Flow[Horizon] < df.Net_Cash_Flow[Horizon]
    /\ summary.NPV # summary.Final_Cumulative_CF

\* C7: at every month Net_Cash_Flow = Net_Operating_Income - CapEx and
\* Net_Operating_Income = Total_Revenue - (Operating_Expenses + Severance_Tax).
C7_CashFlowIdentities ==
    Returned =>
        \A m \in months :
            /\ df.Net_Cash_Flow[m] = df.Net_Operating_Income[m] - df.CapEx[m]
            /\ df.Net_Operating_Income[m] =
                   df.Total_Revenue[m]
                   - (df.Operating_Expenses[m] + df.Severance_Tax[m])

C7_Witness ==
    /\ Returned
    /\ df.Severance_Tax[1] > 0
    /\ df.Operating_Expenses[Horizon] > df.Operating_Expenses[1]
    /\ df.CapEx[1] = 500 * Scale
    /\ df.Net_Cash_Flow[1] < df.Net_Operating_Income[1]

\* C8: whenever the root-finder fails to converge, calculate_irr_scipy
\* returns 0.
C8_NonConvergenceYieldsZero ==
    (Returned /\ solver.kind # "converged") => summary.IRR = 0

\* C9: the value calculate_irr_scipy returns lies in [-100, 1000] percent
\* whatever rate the root-finder produced.
C9_IrrWithinBounds ==
    Returned =>
        /\ summary.IRR >= -100 * Scale
        /\ summary.IRR <= 1000 * Scale

C9_Witness ==
    /\ Returned
    /\ solver.kind # "raised"
    /\ solver.x * 100 > 1000 * Scale
    /\ summary.IRR = 1000 * Scale

\* C10: every recorded run has Oil_Price >= 20, Gas_Price >= 1,
\* Initial_Production >= 100 and Decline_Rate within [0.5, 10], and the
\* projector is only called with values inside those bounds.
InSampleBounds(oil_price, gas_price, initial_production, decline_rate) ==
    /\ oil_price >= 20 * Scale
    /\ gas_price >= 1 * Scale
    /\ initial_production >= 100 * Scale
    /\ decline_rate >= Fx(1, 2)
    /\ decline_rate <= 10 * Scale

C10_SamplesWithinBounds ==
    /\ \A k \in 1 .. Len(results) :
          InSampleBounds(results[k].Oil_Price, results[k].Gas_Price,
                         results[k].Initial_Production,
                         results[k].Decline_Rate)
    /\ i > 0 =>
          InSampleBounds(model_call.oil_price, model_call.gas_price,
                         model_call.initial_production,
                         model_call.decline_rate)

C10_Witness ==
    \E k \in 1 .. Len(results) :
        /\ results[k].Oil_Price = 20 * Scale
        /\ results[k].Gas_Price = 1 * Scale
        /\ results[k].Decline_Rate = 10 * Scale
        /\ model_call.oil_price >= 20 * Scale

\* C11: every trial of a simulation calls the projector with the base
\* discount rate, whatever the trial drew for the other four arguments.
C11_DiscountRateHeldFixed ==
    (pc \in {"mc_loop", "mc_done"} /\ i > 0) =>
        model_call.discount_rate = base_params.discount_rate

\* A second trial has called the projector with arguments other than the base
\* ones.
C11_Witness ==
    /\ pc = "mc_loop"
    /\ i >= 2
    /\ model_call.oil_price # base_params.oil_price
    /\ model_call.decline_rate # base_params.decline_rate

\* C12: each trial calls the projector once and appends one run, the sampled
\* arguments of that call paired with the summary it returned, leaving the
\* runs stored before in place; the returned batch has num_simulations runs.
C12_OneRunPerTrial ==
    [][/\ (pc = "mc_loop" /\ (results' # results \/ i' # i \/ calls' # calls)) =>
            /\ i' = i + 1
            /\ calls' = calls + 1
            /\ Len(results') = Len(results) + 1
            /\ SubSeq(results', 1, Len(results)) = results
            /\ results'[Len(results')] =
                   run_record(model_call'.oil_price, model_call'.gas_price,
                              model_call'.initial_production,
                              model_call'.decline_rate, model_return')
       /\ pc' = "mc_done" =>
            /\ Len(mc_results') = num_simulations'
            /\ calls' = num_simulations'
            /\ mc_results' = results']_vars

\* A simulation of at least two trials has returned its batch.
C12_Witness == pc = "mc_done" /\ num_simulations >= 2 /\ Len(mc_results) >= 2

\* C13: once the user has asked the simulation to stop, no further trial is
\* run: the trials completed stay those completed at the time of asking.
C13_CancelStopsTrials == cancel_requested => i = completed_at_cancel

\* C14: a failure inside a trial never ends the simulation.
C14_TrialFailureCaught == pc # "mc_raised"

Assessed == pc = "assessed" /\ risk_outcome = "returned"

BatchNPV == [k \in 1 .. Len(mc_results) |-> mc_results[k].NPV]

\* C15: the assessment of a batch of zero runs ends in EmptyBatchError and
\* returns no risk report.
C15_EmptyBatchError ==
    (pc \in {"assessed", "assess_raised"} /\ Len(mc_results) = 0) =>
        /\ risk_outcome = "EmptyBatchError"
        /\ risk_metrics = None

\* C16: Risk_Adjusted_Return is mean / standard deviation when the standard
\* deviation is positive and 0 when it is 0; a batch whose NPVs are all equal
\* has Standard_Deviation = 0 and Risk_Adjusted_Return = 0.
C16_RiskAdjustedReturn ==
    Assessed =>
        /\ risk_metrics.Standard_Deviation > 0 =>
               risk_metrics.Risk_Adjusted_Return =
                   DivFix(risk_metrics.Expected_NPV,
                          risk_metrics.Standard_Deviation)
        /\ risk_metrics.Standard_Deviation = 0 =>
               risk_metrics.Risk_Adjusted_Return = 0
        /\ (\A k \in 1 .. Len(BatchNPV) : BatchNPV[k] = BatchNPV[1]) =>
               /\ risk_metrics.Standard_Deviation = 0
               /\ risk_metrics.Risk_Adjusted_Return = 0

\* C17: Probability_Positive is 100 times the share of the runs whose NPV is
\* strictly greater than 0.
C17_ProbabilityPositive ==
    Assessed =>
        risk_metrics.Probability_Positive =
            Fx(Cardinality({k \in 1 .. Len(BatchNPV) : BatchNPV[k] > 0}),
               Len(BatchNPV)) * 100

\* A batch with a run at exactly 0, a run above and a run below.
C17_Witness ==
    /\ Assessed
    /\ \E k \in 1 .. Len(BatchNPV) : BatchNPV[k] = 0
    /\ \E k \in 1 .. Len(BatchNPV) : BatchNPV[k] > 0
    /\ \E k \in 1 .. Len(BatchNPV) : BatchNPV[k] < 0
    /\ risk_metrics.Probability_Positive > 0
    /\ risk_metrics.Probability_Positive < 100 * Scale

\* C18: Probability_Excellent is 100 times the share of the runs whose NPV is
\* strictly above the 75th percentile of the NPVs of the same batch.
C18_ProbabilityExcellent ==
    Assessed =>
        risk_metrics.Probability_Excellent =
            Fx(Cardinality({k \in 1 .. Len(BatchNPV) :
                               BatchNPV[k] > percentile(BatchNPV, 75)}),
               Len(BatchNPV)) * 100

\* A batch with a run exactly at its 75th percentile and a run above it.
C18_Witness ==
    /\ Assessed
    /\ \E k \in 1 .. Len(BatchNPV) : BatchNPV[k] = percentile(BatchNPV, 75)
    /\ \E k \in 1 .. Len(BatchNPV) : BatchNPV[k] > percentile(BatchNPV, 75)
    /\ risk_metrics.Probability_Excellent > 0

\* C19: Downside_Deviation is the standard deviation of the runs strictly
\* below the batch mean, 0 when there is none, and a defined number for every
\* non-empty batch.
C19_DownsideDeviationDefined ==
    Assessed =>
        LET below == SelectSeq(BatchNPV,
                               LAMBDA v : v < risk_metrics.Expected_NPV)
        IN  /\ risk_metrics.Downside_Deviation # NaN
            /\ Len(below) = 0 => risk_metrics.Downside_Deviation = 0
            /\ Len(below) > 0 => risk_metrics.Downside_Deviation = std(below)

C22_ProgressIsShareDone ==
    [][(pc = "mc_loop" /\ progress' # progress) =>
          /\ i' = i + 1
          /\ progress' = Fx(i', num_simulations)
          /\ progress' > progress
          /\ (progress' = One) <=> (i' = num_simulations)
          /\ SubSeq(results', 1, Len(results)) = results
          /\ mc_results' = mc_results
          /\ pc' = "mc_loop"]_vars

\* The last of at least two trials has been recorded and progress stands at 1.
C22_Witness ==
    /\ pc = "mc_loop"
    /\ num_simulations >= 2
    /\ i = num_simulations
    /\ Len(results) = num_simulations
    /\ progress = One

\* The arguments of the worked example.
WorkedExample ==
    [oil_price |-> Fx(65, 1), gas_price |-> Fx(13, 4),
     initial_production |-> Fx(1000, 1), decline_rate |-> Fx(3, 2),
     discount_rate |-> Fx(10, 1)]

\* Two barrel figures agree to a hundredth of a barrel.
SameBarrels(a, b) == a - b <= Fx(1, 100) /\ b - a <= Fx(1, 100)

\* C24: the worked example (65, 3.25, 1000, 1.5, 10) returns a projection
\* whose oil production is 1000 in month 1, 985 in month 2 and strictly
\* smaller in every later month than in the month before.
C24_WorkedExample ==
    (Returned /\ params = WorkedExample) =>
        /\ SameBarrels(df.Oil_Production[1], Fx(1000, 1))
        /\ SameBarrels(df.Oil_Production[2], Fx(985, 1))
        /\ \A m \in 2 .. Horizon :
               df.Oil_Production[m] < df.Oil_Production[m - 1]

\* The worked example has been projected, all 60 months of it.
C24_Witness ==
    /\ Returned
    /\ params = WorkedExample
    /\ DOMAIN df.Oil_Production = months
    /\ df.Oil_Production[Horizon] > 0

NPVWith(p, field, value) ==
    scenario_summary([p EXCEPT ![field] = value], solver).NPV

\* C26: the scenario analysis yields NPV(Conservative) <= NPV(Base Case) <=
\* NPV(Optimistic), and so does each single change of the scenarios: a higher
\* oil price, gas price or initial production never lowers the NPV, a higher
\* decline rate never raises it.
C26_ScenarioNPVOrdered ==
    pc = "scenarios_shown" =>
        LET sc == scenarios(params)
            base == scenario_results.Base_Case.NPV
        IN  /\ scenario_results.Conservative.NPV <= base
            /\ base <= scenario_results.Optimistic.NPV
            /\ \A f \in {"oil_price", "gas_price", "initial_production"} :
                   /\ sc.Conservative[f] <= params[f]
                   /\ params[f] <= sc.Optimistic[f]
                   /\ NPVWith(params, f, sc.Conservative[f]) <= base
                   /\ base <= NPVWith(params, f, sc.Optimistic[f])
            /\ sc.Conservative.decline_rate >= params.decline_rate
            /\ params.decline_rate >= sc.Optimistic.decline_rate
            /\ NPVWith(params, "decline_rate", sc.Conservative.decline_rate)
                   <= base
            /\ base <= NPVWith(params, "decline_rate",
                               sc.Optimistic.decline_rate)

\* The scenarios of the slider corner (120, 8, 1000, 5.0, 20) have been run
\* and their NPVs differ.
C26_Witness ==
    /\ pc = "scenarios_shown"
    /\ params.oil_price = Fx(120, 1)
    /\ params.decline_rate = Fx(5, 1)
    /\ scenario_results.Conservative.NPV < scenario_results.Base_Case.NPV
    /\ scenario_results.Base_Case.NPV < scenario_results.Optimistic.NPV

\* NPV of the same call at another discount rate.
NPVAtRate(rate) ==
    scenario_summary([params EXCEPT !.discount_rate = rate], solver).NPV

\* No higher discount rate gives an NPV as large as the one returned.
HigherRateLowersNPV ==
    \A rate \in RateChoices :
        rate > params.discount_rate => NPVAtRate(rate) < summary.NPV

\* From every month on, the net cash flows still to come sum to more than 0.
TailsPositive ==
    \A k \in months : SumRange(df.Net_Cash_Flow, k, Horizon) > 0

\* C23 as the claim states it: whenever the net cash flows of the projection
\* sum to more than 0, a strictly larger discount rate gives a strictly
\* smaller NPV.
C23_Original ==
    (Returned /\ summary.Final_Cumulative_CF > 0) => HigherRateLowersNPV

\* C23, amended: for discount rates from 0 to 20, a strictly larger rate gives
\* a strictly smaller NPV whenever, from every month on, the net cash flows
\* still to come sum to more than 0.
C23_NPVFallsWithRate ==
    (Returned /\ TailsPositive) => HigherRateLowersNPV

\* A projection that starts with losing months, has positive remaining flows
\* throughout and is worth less at 20% than at the rate it was called with.
C23_Witness ==
    /\ Returned
    /\ TailsPositive
    /\ df.Net_Cash_Flow[1] < 0
    /\ params.discount_rate < Fx(20, 1)
    /\ NPVAtRate(Fx(20, 1)) < summary.NPV

\* C27: for a batch of 500, 1000, 2000 or 5000 runs Probability_Excellent is
\* at most 25, so the excellent-return card never takes the colour of the
\* band above 25.
C27_ExcellentAtMostQuarter ==
    (Assessed /\ Len(mc_results) \in UIBatchSizes) =>
        /\ risk_metrics.Probability_Excellent <= 25 * Scale
        /\ excellent_colour(risk_metrics.Probability_Excellent) # "#28a745"

\* A batch of 5000 runs of which exactly a quarter lies above the 75th
\* percentile.
C27_Witness ==
    /\ Assessed
    /\ Len(mc_results) = 5000
    /\ risk_metrics.Probability_Excellent = Fx(1, 4) * 100
    /\ excellent_colour(risk_metrics.Probability_Excellent) = "#ffc107"

\* C25: an export that includes Monte Carlo results and risk metrics was
\* written from the base parameters those were simulated from.
C25_ExportOfOneParameterSet ==
    (pc = "exported" /\ exported.mc_results # None) =>
        /\ exported.risk_metrics # None
        /\ stored_base = exported.params
====
